---- MODULE Spec2Model ----
(***************************************************************************)
(* Linear regression by batch gradient descent (src/regression.py).        *)
(*                                                                         *)
(* Numbers are exact rationals <<num, den>> in lowest terms (den > 0): the *)
(* model follows the arithmetic of the code without floating-point         *)
(* rounding.  A matrix is a sequence of rows, a row a sequence of numbers; *)
(* a one-dimensional array is a sequence of numbers.                       *)
(***************************************************************************)
EXTENDS Integers, Sequences, FiniteSets, TLC

(* ------------------------------ bounds --------------------------------- *)
MaxM == 2        \* rows (training examples) of a generated dataset
MaxFeat == 1     \* feature columns of a dataset given to gradient_descent
MaxCols == 2     \* feature columns of a table given to load_data
MaxIters == 2    \* num_iters of a call

(* --------------------------- rational numbers -------------------------- *)
Abs(a) == IF a < 0 THEN -a ELSE a

\* (The arithmetic is written as functions: a function is applied to the
\* values of its arguments.)
GCD[a \in Nat, b \in Nat] == IF b = 0 THEN a ELSE GCD[b, a % b]

Norm[n \in Int, d \in Int] ==
    LET s == IF d < 0 THEN -1 ELSE 1
    IN  <<(s * n) \div GCD[Abs(n), Abs(d)], (s * d) \div GCD[Abs(n), Abs(d)]>>

R(k) == <<k, 1>>
Zero == R(0)
One == R(1)
Rat == Int \X Int

RAddF[p \in Rat, q \in Rat] ==
    Norm[p[1] * (q[2] \div GCD[p[2], q[2]]) + q[1] * (p[2] \div GCD[p[2], q[2]]),
         (p[2] \div GCD[p[2], q[2]]) * q[2]]

RMulF[p \in Rat, q \in Rat] ==
    Norm[(p[1] \div GCD[Abs(p[1]), q[2]]) * (q[1] \div GCD[Abs(q[1]), p[2]]),
         (p[2] \div GCD[Abs(q[1]), p[2]]) * (q[2] \div GCD[Abs(p[1]), q[2]])]

RLeqF[p \in Rat, q \in Rat] ==
    p[1] * (q[2] \div GCD[p[2], q[2]]) <= q[1] * (p[2] \div GCD[p[2], q[2]])

RAdd(p, q) == RAddF[p, q]
RNeg(p) == <<-p[1], p[2]>>
RSub(p, q) == RAddF[p, RNeg(q)]
RMul(p, q) == RMulF[p, q]
\* p / q for q # 0
RDiv(p, q) == RMulF[p, Norm[q[2], q[1]]]
RLeq(p, q) == RLeqF[p, q]

\* The element of a singleton set.  Once({e(v) : v \in {x}}) evaluates the
\* operand x a single time, whatever the number of uses of v in e.
Once(S) == CHOOSE v \in S : TRUE

RECURSIVE RSumTo(_, _)
\* f[1] + ... + f[k]
RSumTo(f, k) ==
    IF k = 0 THEN Zero
    ELSE Once({ RAdd(s, t) : s \in {RSumTo(f, k - 1)}, t \in {f[k]} })

RSum(f) == Once({ RSumTo(g, Len(g)) : g \in {f} })

(* ------------------------------ ndarrays ------------------------------- *)
Rows(A) == Len(A)
Cols(A) == Len(A[1])
Max(a, b) == IF a >= b THEN a ELSE b

RECURSIVE Vec(_, _)
\* the 1-d array f[1], ..., f[n], each entry computed once
Vec(f, n) == IF n = 0 THEN <<>> ELSE Append(Vec(f, n - 1), f[n])

\* the r x c array with entries f[a][b]
Array(f, r, c) == Vec([a \in 1..r |-> Vec(f[a], c)], r)

Fill(r, c, v) == Array([a \in 1..r |-> [b \in 1..c |-> v]], r, c)

\* ndarray.shape of a 2-d array, and the shapes the operations give
Shape(A) == <<Rows(A), Cols(A)>>
TShape(s) == <<s[2], s[1]>>
MatMulShape(s, t) == <<s[1], t[2]>>
BcastShape(s, t) == <<Max(s[1], t[1]), Max(s[2], t[2])>>

\* A @ B raises ValueError unless the inner dimensions agree
MatMulOK(s, t) == s[2] = t[1]
MatMul(A0, B0) ==
    Once({ Array([a \in 1..Rows(A) |-> [b \in 1..Cols(B) |->
                     RSum([k \in 1..Cols(A) |-> RMul(A[a][k], B[k][b])])]],
                 Rows(A), Cols(B)) : A \in {A0}, B \in {B0} })

\* NumPy broadcasting of two 2-d operands: each axis agrees or one side is 1
BcastOK(s, t) ==
    /\ s[1] = t[1] \/ s[1] = 1 \/ t[1] = 1
    /\ s[2] = t[2] \/ s[2] = 1 \/ t[2] = 1

At(A, a, b) == A[IF Rows(A) = 1 THEN 1 ELSE a][IF Cols(A) = 1 THEN 1 ELSE b]

\* A - B elementwise with broadcasting, defined when BcastOK
BSub(A0, B0) ==
    Once({ Array([a \in 1..Max(Rows(A), Rows(B)) |->
                    [b \in 1..Max(Cols(A), Cols(B)) |->
                        RSub(At(A, a, b), At(B, a, b))]],
                 Max(Rows(A), Rows(B)), Max(Cols(A), Cols(B))) :
             A \in {A0}, B \in {B0} })

Transpose(A0) ==
    Once({ Array([b \in 1..Cols(A) |-> [a \in 1..Rows(A) |-> A[a][b]]],
                 Cols(A), Rows(A)) : A \in {A0} })

Scale(c0, A0) ==
    Once({ Array([a \in 1..Rows(A) |-> [b \in 1..Cols(A) |-> RMul(c, A[a][b])]],
                 Rows(A), Cols(A)) : c \in {c0}, A \in {A0} })

Square(A0) ==
    Once({ Array([a \in 1..Rows(A) |-> [b \in 1..Cols(A) |->
                     RMul(A[a][b], A[a][b])]],
                 Rows(A), Cols(A)) : A \in {A0} })

\* Python's builtin sum over an ndarray: 0 + row 1 + row 2 + ..., a 1-d array
PySum(A0) ==
    Once({ Vec([b \in 1..Cols(A) |-> RSum([a \in 1..Rows(A) |-> A[a][b]])],
               Cols(A)) : A \in {A0} })

(* ---------------------------- cost_function ---------------------------- *)
predictions(A, th) == MatMul(A, th)

\* (variant: the errors are not squared)
sqr_err_unsquared(A, b, th) == BSub(predictions(A, th), b)

sqr_err(A, b, th) == Square(BSub(predictions(A, th), b))

\* The exception a call of cost_function on arrays of shapes sx, sy, st ends
\* in, and the line that raises it
cost_error(sx, sy, st, mm) ==
    IF ~MatMulOK(sx, st) THEN [err |-> "ValueError", line |-> 99]
    ELSE IF ~BcastOK(MatMulShape(sx, st), sy) THEN [err |-> "ValueError", line |-> 100]
    ELSE IF mm = 0 THEN [err |-> "ZeroDivisionError", line |-> 101]
    ELSE [err |-> "none", line |-> 0]

\* the shape of sqr_err
sqr_err_shape(sx, sy, st) == BcastShape(MatMulShape(sx, st), sy)

\* 1 / (2 * m) * sum(sqr_err): a 1-d array with one entry per column of sqr_err
cost_function(A, b, th, mm) ==
    Once({ Vec([k \in 1..Len(s) |-> RMul(Norm[1, 2 * mm], s[k])], Len(s)) :
             s \in {PySum(sqr_err(A, b, th))} })

(* --------------------------- gradient_descent -------------------------- *)
difference(A, b, th) == Transpose(BSub(MatMul(A, th), b))

delta(A, b, th) == Transpose(MatMul(difference(A, b, th), A))

RECURSIVE sweep(_, _, _, _, _)
sweep(A, b, th, c, j) ==
    IF j > Rows(th) THEN th
    ELSE sweep(A, b,
               [th EXCEPT ![j] = <<RSub(th[j][1], RMul(c, delta(A, b, th)[j][1]))>>],
               c, j + 1)

\* (variant: the components are updated one after the other, each from the
\* components already updated)
theta_update_sequential(A, b, th, a, mm) == sweep(A, b, th, RDiv(a, R(mm)), 1)

\* (variant: the step is added)
theta_update_ascent(A, b, th, a, mm) ==
    BSub(th, Scale(RNeg(RDiv(a, R(mm))), delta(A, b, th)))

\* theta - (alpha / m) * delta
theta_update(A, b, th, a, mm) ==
    BSub(th, Scale(RDiv(a, R(mm)), delta(A, b, th)))

\* the shapes of difference, delta and the new theta
difference_shape(sx, sy, st) == TShape(BcastShape(MatMulShape(sx, st), sy))
delta_shape(sx, sy, st) == TShape(MatMulShape(difference_shape(sx, sy, st), sx))
update_shape(sx, sy, st) == BcastShape(st, delta_shape(sx, sy, st))

\* The exception one pass of the loop body ends in on arrays of shapes sx, sy,
\* st, and the line that raises it
iteration_error(sx, sy, st, mm) ==
    IF ~MatMulOK(sx, st) \/ ~BcastOK(MatMulShape(sx, st), sy)
        THEN [err |-> "ValueError", line |-> 147]
    ELSE IF ~MatMulOK(difference_shape(sx, sy, st), sx)
        THEN [err |-> "ValueError", line |-> 149]
    ELSE IF mm = 0
        THEN [err |-> "ZeroDivisionError", line |-> 150]
    ELSE IF ~BcastOK(st, delta_shape(sx, sy, st))
        THEN [err |-> "ValueError", line |-> 150]
    ELSE LET ce == cost_error(sx, sy, update_shape(sx, sy, st), mm)
         IN  IF ce.err # "none" THEN ce
             \* j_vals[i][0] = <1-d array>: only an array of one element fits
             ELSE IF sqr_err_shape(sx, sy, update_shape(sx, sy, st))[2] # 1
                 THEN [err |-> "ValueError", line |-> 151]
             ELSE [err |-> "none", line |-> 0]

(* ------------------------ normalize, load_data ------------------------- *)
\* An entry of the X that load_data builds is the real number num / sqrt(var),
\* kept as the pair [num, var] of rationals; var = 0 is a division by zero
\* (NumPy gives nan or inf and goes on).
Plain(q) == [num |-> q, var |-> One]
Lift(T) == Array([a \in 1..Rows(T) |-> [b \in 1..Cols(T) |-> Plain(T[a][b])]],
                 Rows(T), Cols(T))

\* np.mean(X, axis=0)
mu(T) ==
    Vec([b \in 1..Cols(T) |->
            RDiv(RSum([a \in 1..Rows(T) |-> T[a][b]]), R(Rows(T)))], Cols(T))

\* np.std(X, axis=0), squared
sigma2(T) ==
    LET mean == mu(T)
    IN  Vec([b \in 1..Cols(T) |->
                RDiv(RSum([a \in 1..Rows(T) |->
                            RMul(RSub(T[a][b], mean[b]), RSub(T[a][b], mean[b]))]),
                     R(Rows(T)))], Cols(T))

\* (X - mu) / sigma
normalize(T) ==
    LET mean == mu(T)
        var == sigma2(T)
    IN  Array([a \in 1..Rows(T) |-> [b \in 1..Cols(T) |->
                  [num |-> RSub(T[a][b], mean[b]), var |-> var[b]]]],
              Rows(T), Cols(T))

\* (variant: every table is normalized)
needs_normalize_always(T) == Cols(T) >= 1

\* if X.shape[1] > 1
needs_normalize(T) == Cols(T) > 1

\* np.append(np.ones((m, 1)), X, axis=1)
append_ones(T) == Vec([a \in 1..Rows(T) |-> <<Plain(One)>> \o T[a]], Rows(T))

(* ------------------------------- state --------------------------------- *)
VARIABLES
    X, y, theta0,      \* the caller's arrays
    alpha, num_iters, m,
    fn,                \* the function the caller has called, "none" before
    pc,
    thetaRef,          \* what the local name theta is bound to: "arg" or "local"
    thetaLoc,          \* the array made inside gradient_descent
    i, j_vals,
    err, errLine,      \* the exception that ended the call, and its line
    plotArg, plotted,  \* what plot_cost received
    ret,               \* the returned objects, in order
    J,                 \* what a direct call of cost_function returned
    raw, Xn, lpc       \* load_data: the feature table, X, and its position

vars == <<X, y, theta0, alpha, num_iters, m, fn, pc, thetaRef, thetaLoc, i,
          j_vals, err, errLine, plotArg, plotted, ret, J, raw, Xn, lpc>>

inputs == <<X, y, theta0, alpha, num_iters, m>>
loader == <<raw, Xn, lpc>>

\* the array the local name theta denotes
theta == IF thetaRef = "arg" THEN theta0 ELSE thetaLoc

(* ------------------------------- inputs -------------------------------- *)
FeatVals == {0, 1}
LabelVals == {0, 1}
Widths == {1, 2}       \* column counts of an ill-shaped y or theta
Alphas == {<<1, 2>>, One}
BadAlphas == {<<-1, 2>>, Zero}

\* all r x c arrays with entries from S
Mat(r, c, S) == { Array(f, r, c) : f \in [1..r -> [1..c -> {R(v) : v \in S}]] }

\* np.append(np.ones((m, 1)), X, axis=1)
AppendOnes(F) == Vec([a \in 1..Rows(F) |-> <<One>> \o F[a]], Rows(F))

Call(A, b, th, a, k, mm) ==
    [X |-> A, y |-> b, theta0 |-> th, alpha |-> a, num_iters |-> k, m |-> mm]

\* what load_data hands over: bias column, (m, 1) labels, zero theta, m rows
ValidInputs ==
    UNION { UNION { { Call(AppendOnes(F), b, Fill(f + 1, 1, Zero), a, k, r) :
                        F \in Mat(r, f, FeatVals), b \in Mat(r, 1, LabelVals),
                        a \in Alphas, k \in 0..MaxIters }
                    : f \in 0..MaxFeat } : r \in 1..MaxM }

\* calls with a configuration that may be invalid
ConfigInputs ==
    { Call(Fill(r, f + 1, One), Fill(r, 1, One), Fill(f + 1, 1, Zero), a, k, mm) :
        r \in 1..MaxM, f \in 0..MaxFeat, a \in BadAlphas \cup {<<1, 2>>},
        k \in -1..MaxIters, mm \in {-1, 0, MaxM} }

\* calls whose arrays have arbitrary two-dimensional shapes
ShapeInputs ==
    { Call(Fill(s[1], s[2], One), Fill(s[3], s[4], One), Fill(s[5], s[6], Zero),
           <<1, 2>>, k, s[1]) :
        s \in (1..MaxM) \X (1..MaxFeat + 1) \X (1..MaxM) \X Widths
              \X (1..MaxFeat + 1) \X Widths,
        k \in 0..MaxIters }

\* the worked example: y = x on three points, alpha = 0.1
ScenarioA ==
    { Call(<< <<One, R(1)>>, <<One, R(2)>>, <<One, R(3)>> >>,
           << <<R(1)>>, <<R(2)>>, <<R(3)>> >>, Fill(2, 1, Zero), <<1, 10>>, k, 3) :
        k \in 0..MaxIters }

Inputs == ValidInputs \cup ConfigInputs \cup ShapeInputs \cup ScenarioA

(* ------------------------------- actions ------------------------------- *)
LoaderIdle == raw = <<>> /\ Xn = <<>> /\ lpc = "off"

\* the state in which the caller holds the arguments of a call from S
InitWith(S) ==
    /\ \E c \in S :
        /\ X = c.X /\ y = c.y /\ theta0 = c.theta0
        /\ alpha = c.alpha /\ num_iters = c.num_iters /\ m = c.m
    /\ fn = "none" /\ pc = "start"
    /\ thetaRef = "arg" /\ thetaLoc = <<>>
    /\ i = 0 /\ j_vals = <<>>
    /\ err = "none" /\ errLine = 0
    /\ plotArg = <<>> /\ plotted = FALSE
    /\ ret = <<>> /\ J = <<>>
    /\ LoaderIdle

Init == InitWith(Inputs)

Raise(e) == pc' = "raised" /\ err' = e.err /\ errLine' = e.line

\* a direct call cost_function(X, y, theta, m) by the caller
CallCostFunction ==
    /\ pc = "start"
    /\ fn' = "cost_function"
    /\ LET e == cost_error(Shape(X), Shape(y), Shape(theta0), m)
       IN  IF e.err # "none"
           THEN Raise(e) /\ J' = J
           ELSE /\ J' = cost_function(X, y, theta0, m)
                /\ pc' = "returned"
                /\ UNCHANGED <<err, errLine>>
    /\ UNCHANGED <<inputs, loader, thetaRef, thetaLoc, i, j_vals, plotArg, plotted, ret>>

\* j_vals = np.zeros((num_iters, 1))
Allocate ==
    /\ pc = "start"
    /\ fn' = "gradient_descent"
    /\ IF num_iters < 0
       THEN Raise([err |-> "ValueError", line |-> 143]) /\ j_vals' = j_vals
       ELSE /\ j_vals' = Fill(num_iters, 1, Zero)
            /\ pc' = "loop"
            /\ UNCHANGED <<err, errLine>>
    /\ i' = 0
    /\ UNCHANGED <<inputs, loader, thetaRef, thetaLoc, plotArg, plotted, ret, J>>

\* (variant: range(num_iters - 1))
loop_continues_short(k, n) == k < n - 1

\* for i in range(num_iters): whether the range yields another i after k passes
loop_continues(k, n) == k < n

\* (variant: theta -= ..., the array the name denotes is overwritten)
RebindInPlace(cur, new) ==
    IF cur.thetaRef = "arg"
    THEN [theta0 |-> new, thetaLoc |-> cur.thetaLoc, thetaRef |-> "arg"]
    ELSE [theta0 |-> cur.theta0, thetaLoc |-> new, thetaRef |-> "local"]

\* theta = <new array>: the local name is bound to the new array
Rebind(cur, new) ==
    [theta0 |-> cur.theta0, thetaLoc |-> new, thetaRef |-> "local"]

\* (variant: the cost is taken before the update)
recorded_cost_before(A, b, old, new, mm) == cost_function(A, b, old, mm)[1]

\* the value written to j_vals[i][0]
recorded_cost(A, b, old, new, mm) == cost_function(A, b, new, mm)[1]

\* one pass of the loop body
Iterate ==
    /\ pc = "loop"
    /\ loop_continues(i, num_iters)
    /\ LET e == iteration_error(Shape(X), Shape(y), Shape(theta), m)
           cur == [theta0 |-> theta0, thetaLoc |-> thetaLoc, thetaRef |-> thetaRef]
       IN  IF e.err = "none"
           THEN \E new \in {theta_update(X, y, theta, alpha, m)} :
                  LET nxt == Rebind(cur, new)
                  IN  /\ theta0' = nxt.theta0
                      /\ thetaLoc' = nxt.thetaLoc
                      /\ thetaRef' = nxt.thetaRef
                      /\ j_vals' = [j_vals EXCEPT ![i + 1] =
                                       <<recorded_cost(X, y, theta, new, m)>>]
                      /\ i' = i + 1
                      /\ UNCHANGED <<pc, err, errLine>>
           ELSE LET nxt == IF e.line \in {99, 100, 101, 151}
                           THEN Rebind(cur, theta_update(X, y, theta, alpha, m))
                           ELSE cur
                IN  /\ theta0' = nxt.theta0
                    /\ thetaLoc' = nxt.thetaLoc
                    /\ thetaRef' = nxt.thetaRef
                    /\ Raise(e)
                    /\ UNCHANGED <<i, j_vals>>
    /\ UNCHANGED <<X, y, alpha, num_iters, m, fn, loader, plotArg, plotted, ret, J>>

\* plot_cost(j_vals), after the range is exhausted
PlotCost ==
    /\ pc = "loop"
    /\ ~loop_continues(i, num_iters)
    /\ plotArg' = j_vals
    /\ plotted' = TRUE
    /\ pc' = "plot"
    /\ UNCHANGED <<inputs, loader, fn, thetaRef, thetaLoc, i, j_vals, err, errLine, ret, J>>

\* (variant: return theta, j_vals)
returned_both(th, jv) == <<th, jv>>

\* the objects gradient_descent returns, in order
returned(th, jv) == <<th>>

\* return theta
Return ==
    /\ pc = "plot"
    /\ ret' = returned(theta, j_vals)
    /\ pc' = "done"
    /\ UNCHANGED <<inputs, loader, fn, thetaRef, thetaLoc, i, j_vals, err, errLine,
                   plotArg, plotted, J>>

(* ------------------------------ load_data ------------------------------ *)
TableVals == {0, 1, 2}

\* X = np.array(data.iloc[:, 0:-1]): the feature columns of the table
InitLoad ==
    /\ \E r \in 1..MaxM, c \in 1..MaxCols : raw \in Mat(r, c, TableVals)
    /\ Xn = Lift(raw)
    /\ lpc = "read"
    /\ X = <<>> /\ y = <<>> /\ theta0 = <<>>
    /\ alpha = Zero /\ num_iters = 0 /\ m = Rows(raw)
    /\ fn = "load_data" /\ pc = "idle"
    /\ thetaRef = "arg" /\ thetaLoc = <<>>
    /\ i = 0 /\ j_vals = <<>>
    /\ err = "none" /\ errLine = 0
    /\ plotArg = <<>> /\ plotted = FALSE
    /\ ret = <<>> /\ J = <<>>

gd == <<X, y, alpha, num_iters, m, fn, pc, thetaRef, thetaLoc, i, j_vals, err,
        errLine, plotArg, plotted, ret, J>>

\* if X.shape[1] > 1: X = normalize(X)
NormalizeFeatures ==
    /\ lpc = "read"
    /\ Xn' = IF needs_normalize(raw) THEN normalize(raw) ELSE Xn
    /\ lpc' = "scaled"
    /\ UNCHANGED <<raw, theta0, gd>>

\* X = np.append(np.ones((m, 1)), X, axis=1)
AppendBias ==
    /\ lpc = "scaled"
    /\ Xn' = append_ones(Xn)
    /\ lpc' = "biased"
    /\ UNCHANGED <<raw, theta0, gd>>

\* n = X.shape[1]; theta = np.zeros((n, 1)); return
InitTheta ==
    /\ lpc = "biased"
    /\ theta0' = Fill(Cols(Xn), 1, Zero)
    /\ lpc' = "loaded"
    /\ UNCHANGED <<raw, Xn, gd>>

NextLoad == NormalizeFeatures \/ AppendBias \/ InitTheta

SpecLoad == InitLoad /\ [][NextLoad]_vars

Next == CallCostFunction \/ Allocate \/ Iterate \/ PlotCost \/ Return

Spec == Init /\ [][Next]_vars

\* The interpreter always runs the next statement.  (Termination is checked on
\* the calls of ConfigInputs, ShapeInputs and ScenarioA.)
FairInit == InitWith(ConfigInputs \cup ShapeInputs \cup ScenarioA)

FairSpec == FairInit /\ [][Next]_vars /\ WF_vars(Next)

TypeOK ==
    /\ pc \in {"idle", "start", "loop", "plot", "done", "raised", "returned"}
    /\ fn \in {"none", "load_data", "cost_function", "gradient_descent"}
    /\ err \in {"none", "ValueError", "ZeroDivisionError"}
    /\ thetaRef \in {"arg", "local"}

(* ------------------- the mathematics the claims refer to ---------------- *)
\* X is m x n, y is m x 1 and theta is n x 1
WellShaped ==
    /\ Shape(y) = <<Rows(X), 1>>
    /\ Shape(theta0) = <<Cols(X), 1>>

\* a call that raises nothing: compatible shapes and a divisor m # 0
ValidCall == WellShaped /\ m # 0 /\ num_iters >= 0

\* X_r . th - y_r for row r
Residual(th, r) ==
    RSub(RSum([k \in 1..Cols(X) |-> RMul(X[r][k], th[k][1])]), y[r][1])

\* component j of Xt (X th - y)
Gradient(th, j) ==
    RSum([r \in 1..Rows(X) |-> RMul(X[r][j], Residual(th, r))])

\* th - (alpha / m) Xt (X th - y), every component from the same th
MathUpdate(th) ==
    Vec([j \in 1..Cols(X) |->
            <<RSub(th[j][1], RMul(RDiv(alpha, R(m)), Gradient(th, j)))>>], Cols(X))

\* (1 / (2m)) * sum over the rows of (X_r . th - y_r)^2
MathCost(th) ==
    RDiv(RSum([r \in 1..Rows(X) |-> RMul(Residual(th, r), Residual(th, r))]),
         R(2 * m))

RECURSIVE Thetas(_)
\* <<theta_0, theta_1, ..., theta_k>>
Thetas(k) ==
    IF k = 0 THEN <<theta0>>
    ELSE LET h == Thetas(k - 1) IN Append(h, MathUpdate(h[k]))

ThetaAt(k) == Thetas(k)[k + 1]

InGD == fn = "gradient_descent"

(* -------------------------------- claims -------------------------------- *)

\* C1: a call of gradient_descent with num_iters >= 0 that raises nothing
\* makes exactly num_iters update steps and then terminates: i never exceeds
\* num_iters, every step of the loop either applies one update with
\* i < num_iters or leaves the loop at i = num_iters, the call ends in
\* (theta_num_iters, i = num_iters), and with num_iters = 0 theta is the initial
\* theta and the cost history is empty.
C1_ExactlyNumIters ==
    /\ [](InGD /\ ValidCall =>
            /\ pc # "raised"
            /\ i <= num_iters
            /\ pc \in {"plot", "done"} =>
                  i = num_iters /\ theta = ThetaAt(num_iters)
            /\ pc = "done" /\ num_iters = 0 =>
                  theta = theta0 /\ thetaRef = "arg" /\ j_vals = <<>>)
    /\ [][InGD /\ ValidCall /\ pc = "loop" =>
            \/ i < num_iters /\ i' = i + 1 /\ pc' = "loop"
                 /\ theta' = MathUpdate(theta)
            \/ i = num_iters /\ i' = i /\ pc' = "plot" /\ theta' = theta]_vars
    /\ (InGD /\ ValidCall) ~> (pc = "done")

C1_Witness == InGD /\ ValidCall /\ pc = "done" /\ num_iters = MaxIters
                /\ theta # theta0

\* C2: on well-shaped arrays every pass of the loop replaces theta by
\* theta - (alpha / m) Xt (X theta - y), an n x 1 array each of whose components
\* is computed from the theta of the previous pass.
C2_SimultaneousUpdate ==
    [][InGD /\ WellShaped /\ pc = "loop" /\ i' = i + 1 =>
          /\ theta' = MathUpdate(theta)
          /\ Shape(theta') = <<Cols(X), 1>>]_vars

C2_Witness ==
    /\ InGD /\ WellShaped /\ pc = "loop" /\ i = 2 /\ Cols(X) >= 2
    /\ theta[1] # ThetaAt(1)[1] /\ theta[2] # ThetaAt(1)[2]

\* C3: in a call that raises nothing the cost history has num_iters entries;
\* after i passes entry k, for k <= i, is the cost of theta_k, the theta made by
\* pass k, and the entries after i are still unwritten.
C3_CostHistory ==
    InGD /\ ValidCall /\ pc \in {"loop", "plot", "done"} =>
        /\ Len(j_vals) = num_iters
        /\ LET h == Thetas(i)
           IN  \A k \in 1..num_iters :
                  j_vals[k] = IF k <= i THEN <<MathCost(h[k + 1])>> ELSE <<Zero>>

C3_Witness ==
    /\ InGD /\ ValidCall /\ pc = "done" /\ num_iters >= 2
    /\ j_vals[1] # j_vals[2] /\ j_vals[1] # <<MathCost(theta0)>>

InvalidConfig == m <= 0 \/ num_iters < 0 \/ RLeq(alpha, Zero)

C5_InvalidConfigRejected ==
    InGD /\ InvalidConfig =>
        /\ pc \in {"loop", "raised"}
        /\ pc = "raised" => errLine < 145
        /\ i = 0 /\ thetaRef = "arg"

\* C6: with arrays of incompatible shapes cost_function and gradient_descent
\* end in an exception: no result is computed from broadcast operands.
C6_ShapeMismatchRejected ==
    ~WellShaped /\ fn \in {"cost_function", "gradient_descent"} =>
        /\ pc \in {"loop", "raised"}
        /\ i = 0 /\ thetaRef = "arg" /\ J = <<>>

\* C7: load_data leaves a one-column feature table unchanged, and turns a table
\* of two or more columns into one of the same shape whose entry (a, b) is
\* (X[a][b] - mean_b) / stddev_b, mean_b and stddev_b being the mean and the
\* standard deviation of column b alone.
ColMean(T, b) == RDiv(RSum([a \in 1..Rows(T) |-> T[a][b]]), R(Rows(T)))

ColVar(T, b) ==
    RDiv(RSum([a \in 1..Rows(T) |->
                 RMul(RSub(T[a][b], ColMean(T, b)), RSub(T[a][b], ColMean(T, b)))]),
         R(Rows(T)))

SumSquares == RSum([r \in 1..Rows(X) |-> RSum([k \in 1..Cols(X) |->
                        RMul(X[r][k], X[r][k])])])

SmallStep ==
    /\ m > 0
    /\ ~RLeq(alpha, Zero)
    /\ RLeq(RMul(alpha, SumSquares), R(2 * m))

IsScenarioA ==
    /\ X = << <<One, R(1)>>, <<One, R(2)>>, <<One, R(3)>> >>
    /\ y = << <<R(1)>>, <<R(2)>>, <<R(3)>> >>
    /\ theta0 = << <<Zero>>, <<Zero>> >>
    /\ alpha = <<1, 10>> /\ m = 3

C8_CostNonIncreasing ==
    /\ IsScenarioA => SmallStep
    /\ InGD /\ ValidCall /\ SmallStep /\ pc \in {"loop", "plot", "done"} =>
          \A k \in 1..(i - 1) : RLeq(j_vals[k + 1][1], j_vals[k][1])

C8_Witness ==
    /\ InGD /\ IsScenarioA /\ pc = "done" /\ num_iters = MaxIters
    /\ j_vals[2] # j_vals[1]

\* C9: on well-shaped arrays and m >= 1 cost_function returns
\* (1 / (2m)) * sum over the rows of (X_r . theta - y_r)^2, which is >= 0 and is
\* 0 when theta = 0 and y = 0; every recorded entry of the cost history is >= 0.
AllZero(A) == \A a \in 1..Rows(A) : \A b \in 1..Cols(A) : A[a][b] = Zero

C9_CostNonNegative ==
    WellShaped /\ m >= 1 =>
        /\ pc = "returned" =>
              /\ J = <<MathCost(theta0)>>
              /\ RLeq(Zero, J[1])
              /\ AllZero(theta0) /\ AllZero(y) => J[1] = Zero
        /\ InGD /\ pc \in {"loop", "plot", "done"} =>
              /\ \A k \in 1..i : RLeq(Zero, j_vals[k][1])
              /\ i >= 1 => j_vals[i] = <<MathCost(theta)>>

C9_Witness ==
    WellShaped /\ m >= 1 /\ pc = "returned" /\ J[1] # Zero /\ Rows(X) >= 2

\* C10: no step of cost_function or gradient_descent changes the caller's X, y
\* or initial theta, nor the arguments alpha, num_iters and m.
C10_InputsUnchanged ==
    [][X' = X /\ y' = y /\ theta0' = theta0
       /\ alpha' = alpha /\ num_iters' = num_iters /\ m' = m]_vars

C10_Witness ==
    InGD /\ pc = "done" /\ num_iters = MaxIters /\ thetaRef = "local"
         /\ thetaLoc # theta0

====
